---- MODULE Spec2Model ----
(***************************************************************************)
(* twitter-reply-bot.py: a scheduler runs job() every 6 minutes; each job  *)
(* builds a TwitterBot and runs respond_to_mentions: fetch the mentions,   *)
(* and for each of the first tweet_response_limit of them resolve the      *)
(* conversation tweet, look it up in Airtable, generate a reply with the   *)
(* language model, post it and insert a row in Airtable.                   *)
(*                                                                         *)
(* Every call to a collaborator (Twitter, Airtable, the model) is one      *)
(* step, which returns or raises.  The text and timestamp fields of the    *)
(* tweets and rows take no part in the control flow and are left out.      *)
(***************************************************************************)
EXTENDS Integers, Sequences, FiniteSets, TLC

\* ---------------------------------------------------------------- bounds
MaxRuns == 2          \* jobs the scheduler starts
MaxHead == 2          \* freely chosen mentions at the end of a fetched list
MaxClock == 48        \* minutes the clock of the scheduler is followed
MaxStartMinutes == 1  \* minutes a job may take before its fetch
MaxRunMinutes == 16   \* minutes a job may take after its fetch

\* ------------------------------------------------------ program constants
tweet_response_limit == 35
IntervalMinutes == 6
WindowMinutes == 20

\* ------------------------------------------------------------ input sets
ConvIds == {5, 6}                    \* tweets that start a conversation
ReplyIds == {98, 99}                 \* ids Twitter gives to posted replies
Kinds == {"none", "root", "conv5", "conv6"}
Pads == {0, tweet_response_limit - 1, tweet_response_limit}

\* ---------------------------------------------------------------- values
None == [isNone |-> TRUE, id |-> 0]
Some(x) == [isNone |-> FALSE, id |-> x]
\* no response yet; a response carries data["id"], a string
NoResponse == [isNone |-> TRUE, id |-> <<>>]

\* str(int): the decimal digits, most significant first
RECURSIVE Str(_)
Str(n) == IF n < 10 THEN <<n>> ELSE Append(Str(n \div 10), n % 10)

Min(a, b) == IF a < b THEN a ELSE b

\* The k-th mention of a fetched list: ids follow the position; a "root"
\* mention is its own conversation, a "none" mention has no conversation_id.
MentionId(k) == 9 + k
Mention(k, kind) ==
  [id |-> MentionId(k),
   conversation_id |->
     CASE kind = "none"  -> None
       [] kind = "root"  -> Some(MentionId(k))
       [] kind = "conv5" -> Some(5)
       [] kind = "conv6" -> Some(6)]

\* A fetched list: pad root mentions followed by the mentions of head.
Timeline(pad, head) ==
  [k \in 1..(pad + Len(head)) |->
     IF k <= pad THEN Mention(k, "root") ELSE Mention(k, head[k - pad])]

Heads == UNION {[1..n -> Kinds] : n \in 0..MaxHead}

\* the processes of the race, and a bot that has not started
Procs == {1, 2}
IdleBot == [pc |-> "idle", mentions |-> <<>>, idx |-> 0,
            conversation_tweet |-> None, response_tweet |-> NoResponse,
            mentions_found |-> 0, mentions_replied |-> 0,
            mentions_replied_errors |-> 0]

NoCalls == [get_tweet |-> 0, get_all |-> 0, invoke |-> 0,
            create_tweet |-> 0, insert |-> 0]

VARIABLES
  sched,                    \* "waiting" | "running" | "dead": the __main__ loop
  elapsed,                  \* minutes since the job was last scheduled
  runs,                     \* jobs started so far
  store,                    \* the Airtable table: a sequence of rows
  pc,                       \* where the running job is
  mentions,                 \* the list get_mentions returned
  idx,                      \* mentions of the slice already iterated
  conversation_tweet,       \* mentioned_conversation_tweet of this iteration
  response_tweet,           \* what create_tweet returned
  mentions_found,
  mentions_replied,
  mentions_replied_errors,
  exc,                      \* the exception that left the job, "none" if none
  calls,                    \* calls this job made to the collaborators
  processed,                \* ids of the mentions this job iterated
  post_raised,              \* create_tweet calls of this job that raised
  gen_raised,               \* llm.invoke calls of this job that raised
  store0,                   \* the table when this job started
  \* the clock of the scheduler, for the cadence of the fetches
  now,                      \* minutes since the process started
  next_run,                 \* when schedule runs the job next
  clock_pc,                 \* "sleep" | "start" | "run" | "dead"
  last_fetch,               \* when get_mentions was last called
  delay,                    \* minutes spent inside jobs since that call
  worst,                    \* the longest such delay at a fetch so far
  missed,                   \* minutes whose mentions no fetch has covered
  \* two processes that run the job against the same table
  proc                      \* process -> its bot

bot == <<pc, mentions, idx, conversation_tweet, response_tweet,
         mentions_found, mentions_replied, mentions_replied_errors>>
ghost == <<calls, processed, post_raised, gen_raised, store0>>
cadence == <<now, next_run, clock_pc, last_fetch, delay, worst, missed>>
aside == <<cadence, proc>>
vars == <<sched, elapsed, runs, store, exc, bot, ghost, cadence, proc>>

\* ------------------------------------------------------------ TwitterBot
\* The fields __init__ sets, and the locals of a job that has not started.
\* Faulty variant: one bot serves every job and its counters are never reset.
NewBotKeepsCounters(p) ==
  /\ pc' = p
  /\ mentions' = <<>>
  /\ idx' = 0
  /\ conversation_tweet' = None
  /\ response_tweet' = NoResponse
  /\ UNCHANGED <<mentions_found, mentions_replied, mentions_replied_errors>>
NewBot(p) ==
  /\ pc' = p
  /\ mentions' = <<>>
  /\ idx' = 0
  /\ conversation_tweet' = None
  /\ response_tweet' = NoResponse
  /\ mentions_found' = 0
  /\ mentions_replied' = 0
  /\ mentions_replied_errors' = 0

NewGhost ==
  /\ calls' = NoCalls
  /\ processed' = <<>>
  /\ post_raised' = 0
  /\ gen_raised' = 0
  /\ store0' = store

Called(c) == calls' = [calls EXCEPT ![c] = @ + 1]

\* check_already_responded: scan every row for the string form of the id.
\* Faulty variants: the scan reads the wrong field; the scan stops after the
\* first row; the scan keeps only the result for the last row.
check_last_row(records, mentioned_conversation_tweet_id) ==
  /\ Len(records) > 0
  /\ records[Len(records)].mentioned_conversation_tweet_id
       = Str(mentioned_conversation_tweet_id)
check_response_id(records, mentioned_conversation_tweet_id) ==
  \E i \in 1..Len(records) :
    records[i].tweet_response_id = Str(mentioned_conversation_tweet_id)
check_first_row(records, mentioned_conversation_tweet_id) ==
  /\ Len(records) > 0
  /\ records[1].mentioned_conversation_tweet_id = Str(mentioned_conversation_tweet_id)
check_already_responded(records, mentioned_conversation_tweet_id) ==
  \E i \in 1..Len(records) :
    records[i].mentioned_conversation_tweet_id = Str(mentioned_conversation_tweet_id)

\* mentions[:self.tweet_response_limit] (faulty variant: one mention more)
SliceOffByOne(ms) == SubSeq(ms, 1, Min(Len(ms), tweet_response_limit + 1))
Slice(ms) == SubSeq(ms, 1, Min(Len(ms), tweet_response_limit))

\* mentioned_conversation_tweet.id != mention.id (faulty variant: no test)
AlwaysDistinct(tweet_id, mention_id) == TRUE
IsDistinct(tweet_id, mention_id) == tweet_id # mention_id

\* An exception nobody catches leaves respond_to_mentions, execute_replies,
\* job and schedule.run_pending, and ends the while loop of __main__.
Uncaught(e) ==
  /\ exc' = e
  /\ sched' = "dead"
  /\ pc' = "raised"

Init ==
  /\ sched = "waiting"
  /\ elapsed = 0
  /\ runs = 0
  /\ store = <<>>
  /\ exc = "none"
  /\ pc = "idle"
  /\ mentions = <<>>
  /\ idx = 0
  /\ conversation_tweet = None
  /\ response_tweet = NoResponse
  /\ mentions_found = 0
  /\ mentions_replied = 0
  /\ mentions_replied_errors = 0
  /\ calls = NoCalls
  /\ processed = <<>>
  /\ post_raised = 0
  /\ gen_raised = 0
  /\ store0 = <<>>
  /\ now = 0
  /\ next_run = IntervalMinutes
  /\ clock_pc = "sleep"
  /\ last_fetch = 0
  /\ delay = 0
  /\ worst = 0
  /\ missed = {}
  /\ proc = [p \in Procs |-> IdleBot]

\* while True: schedule.run_pending(); time.sleep(1) -- the job is not due.
\* One step stands for a minute of one-second sleeps.
Tick ==
  /\ sched = "waiting"
  /\ UNCHANGED aside
  /\ elapsed < IntervalMinutes
  /\ elapsed' = elapsed + 1
  /\ UNCHANGED <<sched, runs, store, exc, bot, ghost>>

\* run_pending finds the job due: job() builds a TwitterBot (get_me succeeds)
\* and enters execute_replies.
\* Faulty variant: the job is started in a thread of its own, whether or not
\* the previous job has ended.
JobStartThreaded ==
  /\ elapsed = IntervalMinutes
  /\ UNCHANGED aside
  /\ runs < MaxRuns
  /\ sched' = "running"
  /\ runs' = runs + 1
  /\ NewBot("fetch")
  /\ NewGhost
  /\ UNCHANGED <<elapsed, store, exc>>
JobStart ==
  /\ sched = "waiting"
  /\ UNCHANGED aside
  /\ elapsed = IntervalMinutes
  /\ runs < MaxRuns
  /\ sched' = "running"
  /\ runs' = runs + 1
  /\ NewBot("fetch")
  /\ NewGhost
  /\ UNCHANGED <<elapsed, store, exc>>

\* TwitterBot() raises: get_me fails in __init__
JobStartRaises ==
  /\ sched = "waiting"
  /\ UNCHANGED aside
  /\ elapsed = IntervalMinutes
  /\ runs < MaxRuns
  /\ runs' = runs + 1
  /\ Uncaught("get_me")
  /\ NewGhost
  /\ UNCHANGED <<elapsed, store, mentions, idx, conversation_tweet,
                 response_tweet, mentions_found, mentions_replied,
                 mentions_replied_errors>>

\* respond_to_mentions: get_mentions returns; "if not mentions: return"
\* (the list is empty when .data is None or []).
\* Faulty variant: without the early return, len(None) raises TypeError.
GetMentionsNoReturn ==
  /\ pc = "fetch"
  /\ UNCHANGED aside
  /\ \E pad \in Pads, head \in Heads :
       LET ms == Timeline(pad, head) IN
         /\ mentions' = ms
         /\ IF Len(ms) = 0
              THEN /\ Uncaught("TypeError")
                   /\ UNCHANGED mentions_found
              ELSE /\ pc' = "loop"
                   /\ mentions_found' = Len(ms)
                   /\ UNCHANGED <<sched, exc>>
  /\ UNCHANGED <<elapsed, runs, store, idx, conversation_tweet,
                 response_tweet, mentions_replied, mentions_replied_errors,
                 ghost>>
GetMentions ==
  /\ pc = "fetch"
  /\ UNCHANGED aside
  /\ \E pad \in Pads, head \in Heads :
       LET ms == Timeline(pad, head) IN
         /\ mentions' = ms
         /\ IF Len(ms) = 0
              THEN /\ pc' = "report"
                   /\ UNCHANGED mentions_found
              ELSE /\ pc' = "loop"
                   /\ mentions_found' = Len(ms)
  /\ UNCHANGED <<sched, elapsed, runs, store, exc, idx, conversation_tweet,
                 response_tweet, mentions_replied, mentions_replied_errors,
                 ghost>>

GetMentionsRaises ==
  /\ pc = "fetch"
  /\ UNCHANGED aside
  /\ Uncaught("get_users_mentions")
  /\ UNCHANGED <<elapsed, runs, store, mentions, idx, conversation_tweet,
                 response_tweet, mentions_found, mentions_replied,
                 mentions_replied_errors, ghost>>

\* The for loop takes the next mention of the slice and calls
\* get_mention_conversation_tweet; then the left operand of the condition,
\* mentioned_conversation_tweet.id != mention.id, is evaluated.
\* found = FALSE: get_tweet(...).data is None (the tweet is gone).
Resolve ==
  /\ pc = "loop"
  /\ UNCHANGED aside
  /\ idx < Len(Slice(mentions))
  /\ LET mention == Slice(mentions)[idx + 1] IN
       /\ processed' = Append(processed, mention.id)
       /\ IF mention.conversation_id.isNone
            THEN \* return None, then None.id raises AttributeError
                 /\ Uncaught("AttributeError")
                 /\ conversation_tweet' = None
                 /\ UNCHANGED <<idx, calls>>
            ELSE /\ Called("get_tweet")
                 /\ \E found \in BOOLEAN :
                      IF ~found
                        THEN /\ Uncaught("AttributeError")
                             /\ conversation_tweet' = None
                             /\ UNCHANGED idx
                        ELSE /\ conversation_tweet' = Some(mention.conversation_id.id)
                             /\ IF IsDistinct(mention.conversation_id.id, mention.id)
                                  THEN pc' = "check" /\ UNCHANGED idx
                                  ELSE pc' = "loop" /\ idx' = idx + 1
                             /\ UNCHANGED <<sched, exc>>
  /\ UNCHANGED <<elapsed, runs, store, mentions, response_tweet,
                 mentions_found, mentions_replied, mentions_replied_errors,
                 post_raised, gen_raised, store0>>

ResolveRaises ==
  /\ pc = "loop"
  /\ UNCHANGED aside
  /\ idx < Len(Slice(mentions))
  /\ ~ Slice(mentions)[idx + 1].conversation_id.isNone
  /\ processed' = Append(processed, Slice(mentions)[idx + 1].id)
  /\ Called("get_tweet")
  /\ Uncaught("get_tweet")
  /\ UNCHANGED <<elapsed, runs, store, mentions, idx, conversation_tweet,
                 response_tweet, mentions_found, mentions_replied,
                 mentions_replied_errors, post_raised, gen_raised, store0>>

\* "and not self.check_already_responded(mentioned_conversation_tweet.id)"
\* Faulty variants: the answer is ignored; the rows are read once, when the
\* job starts.
CheckIgnored ==
  /\ pc = "check"
  /\ UNCHANGED aside
  /\ Called("get_all")
  /\ pc' = "generate"
  /\ UNCHANGED <<sched, elapsed, runs, store, exc, mentions, idx,
                 conversation_tweet, response_tweet, mentions_found,
                 mentions_replied, mentions_replied_errors, processed,
                 post_raised, gen_raised, store0>>
CheckCached ==
  /\ pc = "check"
  /\ UNCHANGED aside
  /\ Called("get_all")
  /\ IF check_already_responded(store0, conversation_tweet.id)
       THEN pc' = "loop" /\ idx' = idx + 1
       ELSE pc' = "generate" /\ UNCHANGED idx
  /\ UNCHANGED <<sched, elapsed, runs, store, exc, mentions,
                 conversation_tweet, response_tweet, mentions_found,
                 mentions_replied, mentions_replied_errors, processed,
                 post_raised, gen_raised, store0>>
Check ==
  /\ pc = "check"
  /\ UNCHANGED aside
  /\ Called("get_all")
  /\ IF check_already_responded(store, conversation_tweet.id)
       THEN pc' = "loop" /\ idx' = idx + 1
       ELSE pc' = "generate" /\ UNCHANGED idx
  /\ UNCHANGED <<sched, elapsed, runs, store, exc, mentions,
                 conversation_tweet, response_tweet, mentions_found,
                 mentions_replied, mentions_replied_errors, processed,
                 post_raised, gen_raised, store0>>

CheckRaises ==
  /\ pc = "check"
  /\ UNCHANGED aside
  /\ Called("get_all")
  /\ Uncaught("get_all")
  /\ UNCHANGED <<elapsed, runs, store, mentions, idx, conversation_tweet,
                 response_tweet, mentions_found, mentions_replied,
                 mentions_replied_errors, processed, post_raised, gen_raised,
                 store0>>

\* respond_to_mention: response_text = self.generate_response(...)
Generate ==
  /\ pc = "generate"
  /\ UNCHANGED aside
  /\ Called("invoke")
  /\ pc' = "post"
  /\ UNCHANGED <<sched, elapsed, runs, store, exc, mentions, idx,
                 conversation_tweet, response_tweet, mentions_found,
                 mentions_replied, mentions_replied_errors, processed,
                 post_raised, gen_raised, store0>>

\* self.llm.invoke raises: the call is outside the try of respond_to_mention
GenerateRaises ==
  /\ pc = "generate"
  /\ UNCHANGED aside
  /\ Called("invoke")
  /\ gen_raised' = gen_raised + 1
  /\ Uncaught("invoke")
  /\ UNCHANGED <<elapsed, runs, store, mentions, idx, conversation_tweet,
                 response_tweet, mentions_found, mentions_replied,
                 mentions_replied_errors, processed, post_raised, store0>>

\* try: response_tweet = create_tweet(...); self.mentions_replied += 1
Post ==
  /\ pc = "post"
  /\ UNCHANGED aside
  /\ Called("create_tweet")
  /\ \E rid \in ReplyIds : response_tweet' = Some(Str(rid))
  /\ mentions_replied' = mentions_replied + 1
  /\ pc' = "insert"
  /\ UNCHANGED <<sched, elapsed, runs, store, exc, mentions, idx,
                 conversation_tweet, mentions_found, mentions_replied_errors,
                 processed, post_raised, gen_raised, store0>>

\* except Exception: self.mentions_replied_errors += 1; return
\* Faulty variants: no except clause, the exception leaves the job; no
\* return, the row is inserted all the same; mentions_replied is counted
\* before the call; the post is tried again.
PostRaisesNoReturn ==
  /\ pc = "post"
  /\ UNCHANGED aside
  /\ Called("create_tweet")
  /\ post_raised' = post_raised + 1
  /\ mentions_replied_errors' = mentions_replied_errors + 1
  /\ pc' = "insert"
  /\ UNCHANGED <<sched, elapsed, runs, store, exc, mentions, idx,
                 conversation_tweet, response_tweet, mentions_found,
                 mentions_replied, processed, gen_raised, store0>>
PostRaisesCountsBoth ==
  /\ pc = "post"
  /\ UNCHANGED aside
  /\ Called("create_tweet")
  /\ post_raised' = post_raised + 1
  /\ mentions_replied' = mentions_replied + 1
  /\ mentions_replied_errors' = mentions_replied_errors + 1
  /\ pc' = "loop"
  /\ idx' = idx + 1
  /\ UNCHANGED <<sched, elapsed, runs, store, exc, mentions,
                 conversation_tweet, response_tweet, mentions_found,
                 processed, gen_raised, store0>>
PostRaisesRetry ==
  /\ pc = "post"
  /\ UNCHANGED aside
  /\ Called("create_tweet")
  /\ post_raised' = post_raised + 1
  /\ mentions_replied_errors' = mentions_replied_errors + 1
  /\ pc' = "generate"
  /\ UNCHANGED <<sched, elapsed, runs, store, exc, mentions, idx,
                 conversation_tweet, response_tweet, mentions_found,
                 mentions_replied, processed, gen_raised, store0>>
PostRaisesUncaught ==
  /\ pc = "post"
  /\ UNCHANGED aside
  /\ Called("create_tweet")
  /\ post_raised' = post_raised + 1
  /\ Uncaught("create_tweet")
  /\ UNCHANGED <<elapsed, runs, store, mentions, idx, conversation_tweet,
                 response_tweet, mentions_found, mentions_replied,
                 mentions_replied_errors, processed, gen_raised, store0>>
PostRaises ==
  /\ pc = "post"
  /\ UNCHANGED aside
  /\ Called("create_tweet")
  /\ post_raised' = post_raised + 1
  /\ mentions_replied_errors' = mentions_replied_errors + 1
  /\ pc' = "loop"
  /\ idx' = idx + 1
  /\ UNCHANGED <<sched, elapsed, runs, store, exc, mentions,
                 conversation_tweet, response_tweet, mentions_found,
                 mentions_replied, processed, gen_raised, store0>>

\* self.airtable.insert({...}); return True
Row(tweet, reply) ==
  [mentioned_conversation_tweet_id |-> Str(tweet.id),
   tweet_response_id |-> reply.id]

Insert ==
  /\ pc = "insert"
  /\ UNCHANGED aside
  /\ Called("insert")
  /\ store' = Append(store, Row(conversation_tweet, response_tweet))
  /\ pc' = "loop"
  /\ idx' = idx + 1
  /\ UNCHANGED <<sched, elapsed, runs, exc, mentions, conversation_tweet,
                 response_tweet, mentions_found, mentions_replied,
                 mentions_replied_errors, processed, post_raised, gen_raised,
                 store0>>

InsertRaises ==
  /\ pc = "insert"
  /\ UNCHANGED aside
  /\ Called("insert")
  /\ Uncaught("insert")
  /\ UNCHANGED <<elapsed, runs, store, mentions, idx, conversation_tweet,
                 response_tweet, mentions_found, mentions_replied,
                 mentions_replied_errors, processed, post_raised, gen_raised,
                 store0>>

\* the slice is exhausted: respond_to_mentions returns True
LoopEnd ==
  /\ pc = "loop"
  /\ UNCHANGED aside
  /\ idx = Len(Slice(mentions))
  /\ pc' = "report"
  /\ UNCHANGED <<sched, elapsed, runs, store, exc, mentions, idx,
                 conversation_tweet, response_tweet, mentions_found,
                 mentions_replied, mentions_replied_errors, ghost>>

\* execute_replies prints "Finished Job ... Found, Replied, Errors"; job
\* returns, its bot is dropped and schedule sets the next run
JobReturn ==
  /\ pc = "report"
  /\ UNCHANGED aside
  /\ sched' = "waiting"
  /\ elapsed' = 0
  /\ NewBot("idle")
  /\ NewGhost
  /\ UNCHANGED <<runs, store, exc>>

Next ==
  \/ Tick
  \/ JobStart
  \/ JobStartRaises
  \/ GetMentions
  \/ GetMentionsRaises
  \/ Resolve
  \/ ResolveRaises
  \/ Check
  \/ CheckRaises
  \/ Generate
  \/ GenerateRaises
  \/ Post
  \/ PostRaises
  \/ Insert
  \/ InsertRaises
  \/ LoopEnd
  \/ JobReturn

Spec == Init /\ [][Next]_vars

\* ------------------------------------------------------------------------
\* The cadence of the fetches.  Time is counted in minutes; minute m stands
\* for the mentions created from m up to m + 1.  schedule sets next_run to
\* the time the job returned plus the interval; the calls of a job block
\* (wait_on_rate_limit=True), and nothing bounds the time they take.
\* ------------------------------------------------------------------------
job_vars == <<sched, elapsed, runs, store, exc, bot, ghost, proc>>

\* get_mentions: start_time = now - timedelta(minutes=20)
\* (faulty variant: the 20 is taken as seconds)
StartTimeSeconds(t) == t
StartTime(t) == t - WindowMinutes

Max(a, b) == IF a > b THEN a ELSE b

\* run_pending finds nothing due; time.sleep(1)
Sleep ==
  /\ clock_pc = "sleep"
  /\ now < next_run
  /\ now < MaxClock
  /\ now' = now + 1
  /\ UNCHANGED <<next_run, clock_pc, last_fetch, delay, worst, missed>>
  /\ UNCHANGED job_vars

\* run_pending finds the job due and calls job()
Trigger ==
  /\ clock_pc = "sleep"
  /\ now >= next_run
  /\ clock_pc' = "start"
  /\ UNCHANGED <<now, next_run, last_fetch, delay, worst, missed>>
  /\ UNCHANGED job_vars

\* TwitterBot() and get_users_mentions take their time
StartDelay ==
  /\ clock_pc = "start"
  /\ now < next_run + MaxStartMinutes
  /\ now < MaxClock
  /\ now' = now + 1
  /\ delay' = delay + 1
  /\ UNCHANGED <<next_run, clock_pc, last_fetch, worst, missed>>
  /\ UNCHANGED job_vars

\* get_mentions asks for the mentions from start_time on: the minutes
\* between the last fetch and start_time are covered by no fetch
Fetch ==
  /\ clock_pc = "start"
  /\ missed' = missed \cup {m \in last_fetch..(StartTime(now) - 1) : TRUE}
  /\ worst' = Max(worst, delay)
  /\ last_fetch' = now
  /\ delay' = 0
  /\ clock_pc' = "run"
  /\ UNCHANGED <<now, next_run>>
  /\ UNCHANGED job_vars

\* the loop over the mentions takes its time
RunDelay ==
  /\ clock_pc = "run"
  /\ delay < MaxRunMinutes
  /\ now < MaxClock
  /\ now' = now + 1
  /\ delay' = delay + 1
  /\ UNCHANGED <<next_run, clock_pc, last_fetch, worst, missed>>
  /\ UNCHANGED job_vars

\* job() returns: schedule sets next_run = now + interval
Return ==
  /\ clock_pc = "run"
  /\ next_run' = now + IntervalMinutes
  /\ clock_pc' = "sleep"
  /\ UNCHANGED <<now, last_fetch, delay, worst, missed>>
  /\ UNCHANGED job_vars

\* job() raises: the loop of __main__ ends
JobRaises ==
  /\ clock_pc \in {"start", "run"}
  /\ clock_pc' = "dead"
  /\ UNCHANGED <<now, next_run, last_fetch, delay, worst, missed>>
  /\ UNCHANGED job_vars

CadenceNext ==
  \/ Sleep
  \/ Trigger
  \/ StartDelay
  \/ Fetch
  \/ RunDelay
  \/ Return
  \/ JobRaises

CadenceSpec == Init /\ [][CadenceNext]_vars

\* ------------------------------------------------------------------------
\* Two processes, each with its own scheduler and bot, run one job each
\* against the same table.  The steps are those of the job above, taken on
\* proc[p]; an uncaught exception ends the process.
\* ------------------------------------------------------------------------
race_frame == <<sched, elapsed, runs, exc, bot, ghost, cadence>>
RaceHeads == UNION {[1..n -> {"conv5", "conv6"}] : n \in 0..2}

PSet(p, b) == proc' = [proc EXCEPT ![p] = b]
PHasNext(p) ==
  proc[p].pc = "loop" /\ proc[p].idx < Len(Slice(proc[p].mentions))

\* job(): bot = TwitterBot()
PStart(p) ==
  /\ proc[p].pc = "idle"
  /\ PSet(p, [IdleBot EXCEPT !.pc = "fetch"])
  /\ UNCHANGED <<store, race_frame>>

\* mentions = self.get_mentions(); if not mentions: return
PGetMentions(p) ==
  /\ proc[p].pc = "fetch"
  /\ \E head \in RaceHeads :
       LET ms == Timeline(0, head) IN
         IF Len(ms) = 0
           THEN PSet(p, [proc[p] EXCEPT !.pc = "report", !.mentions = ms])
           ELSE PSet(p, [proc[p] EXCEPT !.pc = "loop", !.mentions = ms,
                                        !.mentions_found = Len(ms)])
  /\ UNCHANGED <<store, race_frame>>

\* get_mention_conversation_tweet and the left operand of the condition
PResolve(p) ==
  /\ PHasNext(p)
  /\ LET mention == Slice(proc[p].mentions)[proc[p].idx + 1] IN
       IF mention.conversation_id.isNone
         THEN PSet(p, [proc[p] EXCEPT !.pc = "raised",
                                      !.conversation_tweet = None])
         ELSE \E found \in BOOLEAN :
                IF ~ found
                  THEN PSet(p, [proc[p] EXCEPT !.pc = "raised",
                                               !.conversation_tweet = None])
                  ELSE IF IsDistinct(mention.conversation_id.id, mention.id)
                    THEN PSet(p, [proc[p] EXCEPT
                                    !.pc = "check",
                                    !.conversation_tweet =
                                       Some(mention.conversation_id.id)])
                    ELSE PSet(p, [proc[p] EXCEPT
                                    !.idx = @ + 1,
                                    !.conversation_tweet =
                                       Some(mention.conversation_id.id)])
  /\ UNCHANGED <<store, race_frame>>

\* check_already_responded: airtable.get_all reads the table as it is now
PCheck(p) ==
  /\ proc[p].pc = "check"
  /\ IF check_already_responded(store, proc[p].conversation_tweet.id)
       THEN PSet(p, [proc[p] EXCEPT !.pc = "loop", !.idx = @ + 1])
       ELSE PSet(p, [proc[p] EXCEPT !.pc = "generate"])
  /\ UNCHANGED <<store, race_frame>>

\* response_text = self.generate_response(...)
PGenerate(p) ==
  /\ proc[p].pc = "generate"
  /\ PSet(p, [proc[p] EXCEPT !.pc = "post"])
  /\ UNCHANGED <<store, race_frame>>

\* create_tweet returns; self.mentions_replied += 1
PPost(p) ==
  /\ proc[p].pc = "post"
  /\ \E rid \in ReplyIds :
       PSet(p, [proc[p] EXCEPT !.pc = "insert",
                               !.response_tweet = Some(Str(rid)),
                               !.mentions_replied = @ + 1])
  /\ UNCHANGED <<store, race_frame>>

\* create_tweet raises; self.mentions_replied_errors += 1; return
PPostRaises(p) ==
  /\ proc[p].pc = "post"
  /\ PSet(p, [proc[p] EXCEPT !.pc = "loop", !.idx = @ + 1,
                             !.mentions_replied_errors = @ + 1])
  /\ UNCHANGED <<store, race_frame>>

\* self.airtable.insert({...}): the table takes the row whatever it holds
PInsert(p) ==
  /\ proc[p].pc = "insert"
  /\ store' = Append(store, Row(proc[p].conversation_tweet,
                                proc[p].response_tweet))
  /\ PSet(p, [proc[p] EXCEPT !.pc = "loop", !.idx = @ + 1])
  /\ UNCHANGED race_frame

\* the slice is exhausted: respond_to_mentions returns, the job reports
PLoopEnd(p) ==
  /\ proc[p].pc = "loop"
  /\ proc[p].idx = Len(Slice(proc[p].mentions))
  /\ PSet(p, [proc[p] EXCEPT !.pc = "report"])
  /\ UNCHANGED <<store, race_frame>>

\* get_users_mentions, get_tweet, get_all, llm.invoke or insert raises
PRaises(p) ==
  /\ \/ proc[p].pc \in {"fetch", "check", "generate", "insert"}
     \/ PHasNext(p)
  /\ PSet(p, [proc[p] EXCEPT !.pc = "raised"])
  /\ UNCHANGED <<store, race_frame>>

RaceNext ==
  \/ \E p \in Procs : PStart(p)
  \/ \E p \in Procs : PGetMentions(p)
  \/ \E p \in Procs : PResolve(p)
  \/ \E p \in Procs : PCheck(p)
  \/ \E p \in Procs : PGenerate(p)
  \/ \E p \in Procs : PPost(p)
  \/ \E p \in Procs : PPostRaises(p)
  \/ \E p \in Procs : PInsert(p)
  \/ \E p \in Procs : PLoopEnd(p)
  \/ \E p \in Procs : PRaises(p)

RaceSpec == Init /\ [][RaceNext]_vars

\* The steps of a started job.  Every call to a collaborator returns or
\* raises in the end (section 5 of the specification: "a call either
\* completes or raises"), so a job that can take a step takes one.
RunStep ==
  \/ GetMentions
  \/ GetMentionsRaises
  \/ Resolve
  \/ ResolveRaises
  \/ Check
  \/ CheckRaises
  \/ Generate
  \/ GenerateRaises
  \/ Post
  \/ PostRaises
  \/ Insert
  \/ InsertRaises
  \/ LoopEnd

FairSpec == Spec /\ WF_vars(RunStep)


\* ------------------------------------------------------------------------
\* Properties
\* ------------------------------------------------------------------------
Key(X) == Str(X)
RowsFor(records, X) ==
  Cardinality({i \in 1..Len(records) :
                 records[i].mentioned_conversation_tweet_id = Key(X)})
HasNext == pc = "loop" /\ idx < Len(Slice(mentions))
NextMention == Slice(mentions)[idx + 1]
IsRoot(m) == ~ m.conversation_id.isNone /\ m.conversation_id.id = m.id
PostsOk == calls.create_tweet - post_raised

\* C1: once the table holds a row for conversation tweet X, no step posts a
\* reply for a mention resolving to X, adds a row for X or increments
\* mentions_replied for it, in this run or a later one.
C1_Idempotence ==
  [][\A X \in ConvIds :
       RowsFor(store, X) >= 1 =>
         /\ RowsFor(store', X) = RowsFor(store, X)
         /\ (calls'.create_tweet > calls.create_tweet
               => conversation_tweet.id # X)
         /\ (mentions_replied' > mentions_replied
               => conversation_tweet.id # X)]_vars

\* a later run has skipped a mention resolving to 5, recorded before the run
C1_Witness ==
  /\ runs = 2
  /\ RowsFor(store0, 5) = 1
  /\ pc = "loop"
  /\ idx >= 1
  /\ mentions[idx].conversation_id = Some(5)
  /\ calls.get_all >= 1
  /\ calls.create_tweet = 0
  /\ store = store0
  /\ mentions_replied = 0

\* C2: the table never holds two rows with the same
\* mentioned_conversation_tweet_id.
C2_AtMostOneRecord ==
  \A i, j \in 1..Len(store) :
    store[i].mentioned_conversation_tweet_id = store[j].mentioned_conversation_tweet_id
      => i = j

\* the second run checked two mentions, skipped the recorded one and
\* recorded the other
C2_Witness ==
  /\ runs = 2
  /\ Len(store0) = 1
  /\ Len(store) = 2
  /\ calls.get_all = 2
  /\ calls.create_tweet = 1
  /\ pc = "report"

\* C3 as stated: a mention that is its own conversation tweet goes to the
\* generation of a reply, without a look at the table.
C3_RootAlwaysReplied ==
  [][(HasNext /\ IsRoot(NextMention) /\ pc' # "raised")
       => (pc' = "generate" /\ calls'.get_all = calls.get_all)]_vars

\* C3 amended: a mention that is its own conversation tweet is never
\* answered: the table is not read, no reply is generated or posted, no row
\* is added, the counters stay and the loop goes on to the next mention.
C3_RootNeverReplied ==
  /\ [](pc \in {"check", "generate", "post", "insert"}
          => conversation_tweet.id # Slice(mentions)[idx + 1].id)
  /\ [][(HasNext /\ IsRoot(NextMention) /\ pc' # "raised")
          => /\ pc' = "loop"
             /\ idx' = idx + 1
             /\ calls' = [calls EXCEPT !.get_tweet = @ + 1]
             /\ store' = store
             /\ mentions_replied' = mentions_replied
             /\ mentions_replied_errors' = mentions_replied_errors]_vars

\* a root mention was passed over while the table holds rows
C3_Witness ==
  /\ pc = "loop"
  /\ idx >= 1
  /\ IsRoot(mentions[idx])
  /\ Len(store) >= 1
  /\ calls.get_tweet = idx
  /\ calls.get_all < idx

\* C4: the mentions a run iterates are the first ones of the fetched list,
\* in order and at most tweet_response_limit of them; no collaborator is
\* called more often than that; mentions_found is the length of the whole
\* list.
C4_Cap ==
  /\ mentions_found = Len(mentions)
  /\ Len(processed) <= Min(Len(mentions), tweet_response_limit)
  /\ \A k \in 1..Len(processed) : processed[k] = mentions[k].id
  /\ \A c \in DOMAIN calls : calls[c] <= Len(processed)

\* 36 mentions fetched, the last one a reply in conversation 5 that has no
\* row: the run ended after 35
C4_Witness ==
  /\ pc = "report"
  /\ mentions_found = tweet_response_limit + 1
  /\ mentions[mentions_found].conversation_id = Some(5)
  /\ RowsFor(store, 5) = 0
  /\ Len(processed) = tweet_response_limit

\* C5: a create_tweet that raises is counted in mentions_replied_errors and
\* nothing else: the job stays alive and the loop goes on with the next
\* mention; mentions_replied_errors is always the number of posts that
\* raised, and a run that returns has iterated every mention within the cap.
C5_PostFailureIsolated ==
  /\ [](mentions_replied_errors = post_raised)
  /\ [](pc = "report" =>
          /\ idx = Min(Len(mentions), tweet_response_limit)
          /\ Len(processed) = idx)
  /\ [][post_raised' > post_raised =>
          /\ pc' = "loop"
          /\ idx' = idx + 1
          /\ sched' = "running"
          /\ exc' = "none"
          /\ mentions_replied_errors' = mentions_replied_errors + 1]_vars

\* two mentions: the post for the first (conversation 5) raised, the second
\* (conversation 6) was answered and recorded, and the run returned
C5_Witness ==
  /\ pc = "report"
  /\ Len(mentions) = 2
  /\ mentions[1].conversation_id = Some(5)
  /\ mentions[2].conversation_id = Some(6)
  /\ RowsFor(store, 5) = 0
  /\ RowsFor(store, 6) = 1
  /\ RowsFor(store0, 6) = 0
  /\ mentions_replied_errors = 1
  /\ mentions_replied = 1

\* C6: a mention without conversation_id is passed over: the job stays
\* alive, the loop goes on with the next mention, and counters and table
\* are as they were.
C6_UnresolvableSkipped ==
  [][(HasNext /\ NextMention.conversation_id.isNone)
       => /\ pc' = "loop"
          /\ idx' = idx + 1
          /\ sched' = "running"
          /\ store' = store
          /\ mentions_replied' = mentions_replied
          /\ mentions_replied_errors' = mentions_replied_errors]_vars

\* C7: an llm.invoke that raises is caught for its mention: it is counted in
\* mentions_replied_errors, nothing is posted or recorded, and the loop goes
\* on with the next mention.
C7_GenerationFailureIsolated ==
  [][gen_raised' > gen_raised
       => /\ mentions_replied_errors' = mentions_replied_errors + 1
          /\ calls'.create_tweet = calls.create_tweet
          /\ store' = store
          /\ pc' = "loop"
          /\ idx' = idx + 1
          /\ sched' = "running"]_vars

\* C8: no error raised inside a run ends the scheduler loop.
RunErrors == {"get_users_mentions", "get_tweet", "AttributeError", "get_all",
              "invoke", "insert"}
C8_SchedulerSurvives == exc \in RunErrors => sched # "dead"

\* C9: a fetch that returns no mention takes the run straight to its end,
\* with the three counters at zero and no call to Twitter's get_tweet and
\* create_tweet, to Airtable or to the model.
C9_EmptyWindow ==
  /\ []((pc = "report" /\ Len(mentions) = 0) =>
          /\ mentions_found = 0
          /\ mentions_replied = 0
          /\ mentions_replied_errors = 0
          /\ calls = NoCalls
          /\ store = store0)
  /\ [][(pc = "fetch" /\ mentions' = <<>> /\ exc' # "get_users_mentions")
          => pc' = "report"]_vars

\* the second run found no mention, after a first run that recorded a reply
C9_Witness ==
  /\ runs = 2
  /\ pc = "report"
  /\ mentions = <<>>
  /\ Len(store) >= 1

\* C10: between two mentions and when a run has ended, by return or by an
\* exception, the rows added in the run are as many as the replies posted
\* and as mentions_replied; a row is added only as the str of the
\* conversation tweet's id with the id create_tweet returned.
C10_OneRecordPerReply ==
  /\ [](pc \in {"loop", "report", "raised"} =>
          /\ Len(store) - Len(store0) = PostsOk
          /\ PostsOk = mentions_replied)
  /\ [][store' # store =>
          store' = Append(store,
                     [mentioned_conversation_tweet_id |-> Str(conversation_tweet.id),
                      tweet_response_id |-> response_tweet.id])]_vars

\* C11: a job starts only when no job is executing, and the loop of __main__
\* sleeps and looks at the schedule again only then: at most one run is in
\* progress.
InRun == pc \in {"fetch", "loop", "check", "generate", "post", "insert",
                 "report"}
C11_NoOverlap ==
  /\ [](InRun <=> sched = "running")
  /\ [][/\ runs' > runs => (~ InRun /\ sched = "waiting")
        /\ elapsed' = elapsed + 1 => (~ InRun /\ sched = "waiting")
        /\ (InRun /\ sched' = "waiting") => pc = "report"]_vars

\* the second job is running: it was started after the first had returned
C11_Witness ==
  /\ runs = 2
  /\ sched = "running"
  /\ pc = "generate"
  /\ elapsed = IntervalMinutes

\* C12: a step either leaves the table as it is or appends one row; a
\* conversation that has a row keeps it, and every later look-up of that
\* conversation answers True: the mention is passed over.
C12_DedupPermanent ==
  [][/\ Len(store') \in {Len(store), Len(store) + 1}
     /\ SubSeq(store', 1, Len(store)) = store
     /\ \A X \in ConvIds : RowsFor(store, X) >= 1 => RowsFor(store', X) >= 1
     /\ (pc = "check" /\ RowsFor(store, conversation_tweet.id) >= 1
           /\ exc' = "none")
          => (pc' = "loop" /\ idx' = idx + 1)]_vars

\* in a later run the row of conversation 5 is older than the row of
\* conversation 6, appended in this run, and a mention in conversation 5 has
\* just been passed over
C12_Witness ==
  /\ runs = 2
  /\ RowsFor(store0, 5) = 1
  /\ RowsFor(store0, 6) = 0
  /\ RowsFor(store, 6) = 1
  /\ pc = "loop"
  /\ idx = 2
  /\ mentions[1].conversation_id = Some(6)
  /\ mentions[2].conversation_id = Some(5)
  /\ calls.get_all = 2
  /\ calls.create_tweet = 1

\* C15: for a mention the calls come in the order get_tweet, get_all,
\* llm.invoke, create_tweet, insert: the table is read for a resolved
\* conversation tweet, the model is called only after a look-up that found
\* no row, create_tweet only after the model has returned, insert only
\* after create_tweet has returned.
C15_StepOrder ==
  /\ [](/\ calls.get_all <= calls.get_tweet
        /\ calls.invoke <= calls.get_all
        /\ calls.create_tweet <= calls.invoke - gen_raised
        /\ calls.insert <= PostsOk)
  /\ [][/\ calls'.get_all > calls.get_all =>
             /\ calls.get_tweet = Len(processed)
             /\ conversation_tweet
                  = Some(Slice(mentions)[idx + 1].conversation_id.id)
        /\ calls'.invoke > calls.invoke =>
             /\ RowsFor(store, conversation_tweet.id) = 0
             /\ calls.get_all > calls.invoke
             /\ calls.invoke = calls.create_tweet
        /\ calls'.create_tweet > calls.create_tweet =>
             calls.invoke - gen_raised = calls.create_tweet + 1
        /\ calls'.insert > calls.insert =>
             /\ ~ response_tweet.isNone
             /\ PostsOk = calls.insert + 1]_vars

\* a mention has gone through the five calls while the table held a row of
\* another conversation
C15_Witness ==
  /\ pc = "loop"
  /\ idx = 1
  /\ calls = [get_tweet |-> 1, get_all |-> 1, invoke |-> 1,
              create_tweet |-> 1, insert |-> 1]
  /\ Len(store) = 2

\* C16: a job starts with the three counters at zero, and the counters it
\* reports are those of its own mentions, replies and failed posts.
C16_NoCounterLeak ==
  /\ pc = "fetch" =>
       /\ mentions_found = 0
       /\ mentions_replied = 0
       /\ mentions_replied_errors = 0
  /\ pc = "report" =>
       /\ mentions_found = Len(mentions)
       /\ mentions_replied = PostsOk
       /\ mentions_replied = Len(store) - Len(store0)
       /\ mentions_replied_errors = post_raised

\* the first run answered a mention; the second found one and answered none
C16_Witness ==
  /\ runs = 2
  /\ pc = "report"
  /\ Len(store0) >= 1
  /\ mentions_found >= 1
  /\ mentions_replied = 0
  /\ mentions_replied_errors = 0

\* C17: the table changes only in the insert that follows a successful
\* post: a mention that the look-up rejects leaves table, mentions_replied
\* and mentions_replied_errors as they were, and a post that raises leaves
\* the table as it was.
C17_StoreUnchanged ==
  /\ [](Len(store) - Len(store0) <= PostsOk)
  /\ [][/\ (pc = "check" /\ pc' = "loop") =>
             /\ store' = store
             /\ mentions_replied' = mentions_replied
             /\ mentions_replied_errors' = mentions_replied_errors
             /\ calls'.create_tweet = calls.create_tweet
             /\ calls'.insert = calls.insert
        /\ post_raised' > post_raised =>
             /\ store' = store
             /\ mentions_replied' = mentions_replied
        /\ store' # store => pc = "insert"]_vars

\* in the second run the mention in conversation 5 was rejected by the
\* look-up and the post for the mention in conversation 6 raised
C17_Witness ==
  /\ runs = 2
  /\ pc = "loop"
  /\ idx = 2
  /\ mentions[1].conversation_id = Some(5)
  /\ mentions[2].conversation_id = Some(6)
  /\ RowsFor(store0, 5) = 1
  /\ calls.get_all = 2
  /\ calls.create_tweet = 1
  /\ post_raised = 1
  /\ store = store0
  /\ mentions_replied = 0
  /\ mentions_replied_errors = 1

\* C18: the first two mentions of a run are replies in the same conversation
\* X, which had no row when the run started.  When the first was answered
\* and recorded, the look-up rejects the second: one model call, one post,
\* one row.  When the post for the first raised, the second is attempted.
SamePair ==
  /\ Len(mentions) >= 2
  /\ ~ mentions[1].conversation_id.isNone
  /\ mentions[1].conversation_id = mentions[2].conversation_id
  /\ ~ IsRoot(mentions[1])
  /\ ~ IsRoot(mentions[2])
  /\ RowsFor(store0, mentions[1].conversation_id.id) = 0
C18_DedupWithinRun ==
  /\ []((SamePair /\ pc = "loop" /\ idx = 2) =>
          /\ RowsFor(store, mentions[1].conversation_id.id) = mentions_replied
          /\ mentions_replied <= 1
          /\ calls.get_all = 2
          /\ mentions_replied_errors = 0 =>
               /\ mentions_replied = 1
               /\ calls.invoke = 1
               /\ calls.create_tweet = 1
          /\ mentions_replied_errors >= 1 =>
               /\ calls.invoke = 2
               /\ calls.create_tweet = 2)
  /\ [][(SamePair /\ pc = "check" /\ idx = 1 /\ exc' = "none") =>
          /\ mentions_replied = 1 =>
               (pc' = "loop" /\ idx' = 2 /\ store' = store)
          /\ mentions_replied = 0 => pc' = "generate"]_vars

\* the first of the two was answered and recorded, the second passed over
C18_Witness ==
  /\ SamePair
  /\ pc = "loop"
  /\ idx = 2
  /\ mentions_replied = 1
  /\ mentions_replied_errors = 0
  /\ calls.get_all = 2
  /\ calls.create_tweet = 1
  /\ Len(store) = Len(store0) + 1

\* C19: mentions_replied + mentions_replied_errors is the number of posts
\* attempted and at most the number of mentions iterated, itself at most
\* min(mentions_found, tweet_response_limit); within a run a step adds one
\* to one of the two counters, in the post, or leaves both.
C19_CounterBound ==
  /\ [](/\ mentions_replied + mentions_replied_errors = calls.create_tweet
        /\ mentions_replied + mentions_replied_errors <= Len(processed)
        /\ Len(processed) <= Min(mentions_found, tweet_response_limit))
  /\ [][(InRun /\ pc' # "idle") =>
          /\ mentions_replied' \in {mentions_replied, mentions_replied + 1}
          /\ mentions_replied_errors'
               \in {mentions_replied_errors, mentions_replied_errors + 1}
          /\ mentions_replied' + mentions_replied_errors'
               <= mentions_replied + mentions_replied_errors + 1
          /\ (mentions_replied' + mentions_replied_errors'
                > mentions_replied + mentions_replied_errors)
               => (pc = "post" /\ Len(processed') = Len(processed))]_vars

\* 36 mentions found, 35 iterated, of which the last one was answered or
\* its post raised
C19_Witness ==
  /\ pc = "report"
  /\ mentions_found = tweet_response_limit + 1
  /\ Len(processed) = tweet_response_limit
  /\ mentions_replied + mentions_replied_errors = 1

\* C20: a started job reaches its report or raises, so that no run stays
\* for ever between its fetch and its end; it iterates at most
\* tweet_response_limit mentions and calls get_tweet, get_all, llm.invoke,
\* create_tweet and insert at most once for each of them: a failed post is
\* not tried again.
C20_RunTerminates ==
  /\ [](/\ Len(processed) <= tweet_response_limit
        /\ idx <= Len(processed)
        /\ \A c \in DOMAIN calls :
             calls[c] <= idx + (IF pc \in {"loop", "report", "idle"}
                                  THEN 0 ELSE 1))
  /\ []<>(pc \in {"idle", "report", "raised"})

\* a run of 35 mentions has ended, with one post that raised
C20_Witness ==
  /\ pc = "report"
  /\ Len(processed) = tweet_response_limit
  /\ post_raised = 1
  /\ calls.create_tweet = 1

\* C13 as stated: whatever the time the jobs take, no minute is left
\* outside the windows of two consecutive fetches.
C13_NoMentionMissed == missed = {}

\* C13 amended: no minute is left outside the windows as long as the jobs
\* have taken at most 20 - 6 = 14 minutes between one fetch and the next.
C13_NoMentionMissedWhenPrompt ==
  worst <= WindowMinutes - IntervalMinutes => missed = {}

\* three fetches, one of them 20 minutes after the one before, and nothing
\* missed
C13_Witness ==
  /\ clock_pc = "run"
  /\ worst = WindowMinutes - IntervalMinutes
  /\ last_fetch >= 2 * IntervalMinutes + WindowMinutes
  /\ delay = 0
  /\ missed = {}

\* C14: with two processes on one table the look-up of each process still
\* guards its own posts (the model is called only after a look-up that found
\* no row, and a process adds at most one row for a conversation), but the
\* insert appends whatever the table holds by then: the state of C14_Witness,
\* two rows for one conversation, is reached.
C14_CheckThenAppend ==
  /\ [](\A X \in ConvIds : RowsFor(store, X) <= Cardinality(Procs))
  /\ [][\A p \in Procs :
          /\ (proc[p].pc = "check" /\ proc'[p].pc = "generate")
               => RowsFor(store, proc[p].conversation_tweet.id) = 0
          /\ (proc[p].pc = "insert" /\ proc'[p].pc = "loop")
               => store' = Append(store, Row(proc[p].conversation_tweet,
                                             proc[p].response_tweet))]_vars

\* each process had one mention, in conversation 5; both looked before
\* either inserted, both posted, and the table holds two rows for 5
C14_Witness ==
  /\ \A p \in Procs :
       /\ proc[p].pc = "report"
       /\ proc[p].mentions_found = 1
       /\ proc[p].mentions[1].conversation_id = Some(5)
       /\ proc[p].mentions_replied = 1
  /\ Len(store) = 2
  /\ RowsFor(store, 5) = 2
====
